---- MODULE Spec2Model ----
(***************************************************************************)
(* Model of applications/wikipedia/main.py: the chunker, the batcher, the  *)
(* readiness gate spawn_server, the TextEmbeddingsInference worker class,  *)
(* the driver embed_dataset and the entrypoint main.                       *)
(*                                                                         *)
(* Texts are sequences of one-character strings.  Fractions (down_scale,   *)
(* the measured duration) are pairs <<n, d>> with d > 0, and arithmetic    *)
(* on them is exact where the program computes in floating point.          *)
(*                                                                         *)
(* The Modal platform is the environment of the program.  What the program *)
(* asks of it is taken from the source: concurrency_limit=N_GPU and        *)
(* allow_concurrent_inputs on the class, order_outputs=True on the map     *)
(* call, and the lifecycle of a class with __enter__ and __exit__ (a       *)
(* container receives inputs once __enter__ has completed).                *)
(***************************************************************************)
EXTENDS Integers, Sequences, FiniteSets, Bags, TLC

VARIABLES
    fnpc,     \* pure-function harness: "none" | "called" | "returned"
    args,     \* arguments of the pure function being applied
    ret,      \* its return value
    entry,                \* "main" | "embed_dataset": how the run was invoked
    mainpc,               \* position of main
    benchmarks,           \* the entries appended to benchmarks.json
    dataset,              \* the dataset on disk: [ttl, pat]
    down_scale,           \* embed_dataset's argument
    pc,                   \* position of embed_dataset
    error,                \* the exception that ended embed_dataset, "" if none
    materialized_batchs,  \* list(batches)
    nextInput,            \* index of the next batch map hands to a worker
    outputs,              \* finished requests not yet yielded: index -> outcome
    results,              \* the pairs the loop has consumed, in order
    counter,              \* the loop's character count
    stats,                \* the returned record, <<>> if none
    workers               \* the containers of TextEmbeddingsInference: a bag of their states

fnvars == <<fnpc, args, ret>>
runvars == <<entry, mainpc, benchmarks, dataset, down_scale, pc, error,
             materialized_batchs, nextInput, outputs, results, counter, stats, workers>>
vars == <<fnvars, runvars>>

\* The run's variables while only a pure function is exercised.
RunIdle ==
    /\ entry = "none"
    /\ mainpc = "none"
    /\ benchmarks = <<>>
    /\ dataset = [ttl |-> 0, pat |-> <<>>]
    /\ down_scale = <<1, 1>>
    /\ pc = "idle"
    /\ error = ""
    /\ materialized_batchs = <<>>
    /\ nextInput = 1
    /\ outputs = {}
    /\ results = <<>>
    /\ counter = 0
    /\ stats = <<>>
    /\ workers = EmptyBag

(***************************************************************************)
(* Bounds of the pure-function harnesses.                                  *)
(***************************************************************************)
MaxTextLen == 5
MaxRecords == 2
MaxChunkSize == 3
MaxChunks == 5
MaxBatchSize == 3

Min(a, b) == IF a < b THEN a ELSE b

Letters == <<"a", "b", "c", "d", "e", "f", "g", "h", "i", "j">>

\* The text of length n <= 10 whose characters are pairwise distinct.
Text(n) == SubSeq(Letters, 1, n)

\* Python's text[a : b] for 0 <= a <= b (0-based, end-exclusive, clipped).
Slice(text, a, b) == SubSeq(text, a + 1, Min(b, Len(text)))

RECURSIVE Flatten(_)
Flatten(ss) == IF ss = <<>> THEN <<>> ELSE Head(ss) \o Flatten(Tail(ss))

(***************************************************************************)
(* generate_chunks_from_dataset                                            *)
(***************************************************************************)
\* Faulty variant: the range steps by chunk_size + 1, dropping a character per chunk.
RECURSIVE ChunksOfTextSkip(_, _, _)
ChunksOfTextSkip(text, chunk_start, chunk_size) ==
    IF chunk_start >= Len(text) THEN <<>>
    ELSE <<Slice(text, chunk_start, chunk_start + chunk_size)>>
         \o ChunksOfTextSkip(text, chunk_start + chunk_size + 1, chunk_size)

\* for chunk_start in range(0, len(text), chunk_size): yield text[chunk_start : chunk_start + chunk_size]
RECURSIVE ChunksOfText(_, _, _)
ChunksOfText(text, chunk_start, chunk_size) ==
    IF chunk_start >= Len(text) THEN <<>>
    ELSE <<Slice(text, chunk_start, chunk_start + chunk_size)>>
         \o ChunksOfText(text, chunk_start + chunk_size, chunk_size)

\* for data in xs: text = data["text"]; (inner loop)
RECURSIVE generate_chunks_from_dataset(_, _)
generate_chunks_from_dataset(xs, chunk_size) ==
    IF xs = <<>> THEN <<>>
    ELSE ChunksOfText(Head(xs).text, 0, chunk_size)
         \o generate_chunks_from_dataset(Tail(xs), chunk_size)

(***************************************************************************)
(* generate_batches                                                        *)
(***************************************************************************)
\* Faulty variant: the trailing "if batch: yield batch" is missing.
RECURSIVE BatchLoopNoTail(_, _, _)
BatchLoopNoTail(xs, batch, batch_size) ==
    IF xs = <<>> THEN <<>>
    ELSE LET b == Append(batch, Head(xs)) IN
         IF Len(b) = batch_size
         THEN <<b>> \o BatchLoopNoTail(Tail(xs), <<>>, batch_size)
         ELSE BatchLoopNoTail(Tail(xs), b, batch_size)

\* The loop of generate_batches with the batch accumulated so far.
RECURSIVE BatchLoop(_, _, _)
BatchLoop(xs, batch, batch_size) ==
    IF xs = <<>>
    THEN (IF batch # <<>> THEN <<batch>> ELSE <<>>)
    ELSE LET b == Append(batch, Head(xs)) IN
         IF Len(b) = batch_size
         THEN <<b>> \o BatchLoop(Tail(xs), <<>>, batch_size)
         ELSE BatchLoop(Tail(xs), b, batch_size)

generate_batches(xs, batch_size) == BatchLoop(xs, <<>>, batch_size)

(***************************************************************************)
(* Harness for generate_chunks_from_dataset: every dataset of at most      *)
(* MaxRecords records with texts of at most MaxTextLen characters, every   *)
(* chunk_size in 1..MaxChunkSize.                                          *)
(***************************************************************************)
RecordSeqs ==
    UNION {[1..n -> {[text |-> Text(k)] : k \in 0..MaxTextLen}] : n \in 0..MaxRecords}

ChunkInit ==
    /\ RunIdle
    /\ fnpc = "called"
    /\ args \in {[xs |-> xs, chunk_size |-> cs] :
                    xs \in RecordSeqs, cs \in 1..MaxChunkSize}
    /\ ret = <<>>

ChunkCall ==
    /\ fnpc = "called"
    /\ fnpc' = "returned"
    /\ ret' = generate_chunks_from_dataset(args.xs, args.chunk_size)
    /\ UNCHANGED <<args, runvars>>

ChunkNext == ChunkCall

ChunkSpec == ChunkInit /\ [][ChunkNext]_vars

\* Number of chunks a text of length n is cut into.
NumChunks(n, chunk_size) == (n + chunk_size - 1) \div chunk_size

RECURSIVE ChunksBefore(_, _, _)
\* Number of chunks emitted for the records before record k.
ChunksBefore(xs, k, chunk_size) ==
    IF k = 1 THEN 0
    ELSE ChunksBefore(xs, k - 1, chunk_size) + NumChunks(Len(xs[k - 1].text), chunk_size)

\* C5: the chunks of each record, in emission order, concatenate to the record's
\* text; every chunk is at most chunk_size long and all but the record's last are
\* exactly chunk_size long; an empty text yields no chunk; records are processed
\* in source order (record k's chunks follow those of records 1..k-1).
C5_ChunkRoundTrip ==
    fnpc = "returned" =>
        LET xs == args.xs
            cs == args.chunk_size
            total == ChunksBefore(xs, Len(xs) + 1, cs)
        IN  /\ Len(ret) = total
            /\ \A k \in 1..Len(xs) :
                 LET first == ChunksBefore(xs, k, cs) + 1
                     count == NumChunks(Len(xs[k].text), cs)
                     mine == SubSeq(ret, first, first + count - 1)
                 IN  /\ Flatten(mine) = xs[k].text
                     /\ \A j \in 1..Len(mine) : Len(mine[j]) <= cs
                     /\ \A j \in 1..(Len(mine) - 1) : Len(mine[j]) = cs
                     /\ (xs[k].text = <<>> => mine = <<>>)

\* Witness: two records, the first cut into a full chunk and a short one, and an
\* empty record among them.
C5_Witness ==
    /\ fnpc = "returned"
    /\ Len(args.xs) = 2
    /\ Len(args.xs[1].text) = 5
    /\ args.xs[2].text = <<>>
    /\ args.chunk_size = 3
    /\ ret = <<Text(3), <<"d", "e">> >>

(***************************************************************************)
(* Harness for generate_batches: every sequence of at most MaxChunks       *)
(* chunks drawn from ChunkPool, every batch_size in 1..MaxBatchSize.       *)
(***************************************************************************)
ChunkPool == {<<"a">>, <<"b", "c">>}

ChunkSeqs == UNION {[1..n -> ChunkPool] : n \in 0..MaxChunks}

BatchInit ==
    /\ RunIdle
    /\ fnpc = "called"
    /\ args \in {[xs |-> xs, batch_size |-> bs] :
                    xs \in ChunkSeqs, bs \in 1..MaxBatchSize}
    /\ ret = <<>>

BatchCall ==
    /\ fnpc = "called"
    /\ fnpc' = "returned"
    /\ ret' = generate_batches(args.xs, args.batch_size)
    /\ UNCHANGED <<args, runvars>>

BatchNext == BatchCall

BatchSpec == BatchInit /\ [][BatchNext]_vars

RECURSIVE SumLen(_)
SumLen(ss) == IF ss = <<>> THEN 0 ELSE Len(Head(ss)) + SumLen(Tail(ss))

\* C6: the batches hold as many chunks as the input; every batch but the last
\* has exactly batch_size chunks; no batch is empty (an empty input emits no
\* batch); the batches concatenated in emission order are the input.
C6_BatchCompleteness ==
    fnpc = "returned" =>
        /\ SumLen(ret) = Len(args.xs)
        /\ \A i \in 1..(Len(ret) - 1) : Len(ret[i]) = args.batch_size
        /\ \A i \in 1..Len(ret) : ret[i] # <<>> /\ Len(ret[i]) <= args.batch_size
        /\ (args.xs = <<>> => ret = <<>>)
        /\ Flatten(ret) = args.xs

\* Witness: five chunks in batches of two leave a short last batch.
C6_Witness ==
    /\ fnpc = "returned"
    /\ Len(args.xs) = 5
    /\ args.batch_size = 2
    /\ Len(ret) = 3
    /\ Len(ret[3]) = 1

(***************************************************************************)
(* The aggregation at the end of embed_dataset                             *)
(***************************************************************************)
N_GPU == 2          \* scaled: the source sets 6

\* dataset_chars = 19560538957 as a digit sequence in radix 1000, most significant
\* digit first (the value does not fit a 32-bit integer).
DATASET_CHARS == <<19, 560, 538, 957>>

\* Python's int(n / d) for d > 0: truncation towards zero.
Trunc(n, d) == IF n >= 0 THEN n \div d ELSE -((-n) \div d)

\* int(p / q) for fractions p and q with q # 0.
TruncQuot(p, q) ==
    IF q[1] > 0 THEN Trunc(p[1] * q[2], p[2] * q[1])
    ELSE Trunc(-(p[1] * q[2]), p[2] * (-q[1]))

\* Short division of a digit sequence by d, carrying remainder r and quotient q.
RECURSIVE BigDivLoop(_, _, _, _)
BigDivLoop(digits, d, r, q) ==
    IF digits = <<>> THEN [q |-> q, r |-> r]
    ELSE LET cur == r * 1000 + Head(digits) IN
         BigDivLoop(Tail(digits), d, cur % d, Append(q, cur \div d))

BigDivMod(digits, d) == BigDivLoop(digits, d, 0, <<>>)

RECURSIVE BigToInt(_)
BigToInt(digits) ==
    IF digits = <<>> THEN 0
    ELSE BigToInt(SubSeq(digits, 1, Len(digits) - 1)) * 1000 + digits[Len(digits)]

RECURSIVE Pad(_, _)
\* "%0<width>d" % n for n >= 0.
Pad(n, width) ==
    IF width <= 1 THEN ToString(n)
    ELSE Pad(n \div 10, width - 1) \o ToString(n % 10)

\* str(datetime.timedelta) of a normalised (days, seconds, microseconds).
TimedeltaStr(days, seconds, microseconds) ==
    (IF days # 0
        THEN ToString(days) \o " day" \o (IF days \notin {1, -1} THEN "s" ELSE "") \o ", "
        ELSE "")
    \o ToString(seconds \div 3600) \o ":" \o Pad((seconds % 3600) \div 60, 2)
    \o ":" \o Pad(seconds % 60, 2)
    \o (IF microseconds # 0 THEN "." \o Pad(microseconds, 6) ELSE "")

\* str(datetime.timedelta(seconds=n)) for an integer n.
TimedeltaOfInt(n) == TimedeltaStr(n \div 86400, n % 86400, 0)

\* str(datetime.timedelta(seconds=chars / cps)) for a digit sequence chars and
\* cps > 0: the quotient is rounded to the microsecond, ties to even.
TimedeltaOfQuot(chars, cps) ==
    LET whole == BigDivMod(chars, cps)
        frac == BigDivMod(<<whole.r, 0, 0>>, cps)
        us0 == BigToInt(frac.q)
        up == 2 * frac.r > cps \/ (2 * frac.r = cps /\ us0 % 2 = 1)
        us == IF up THEN us0 + 1 ELSE us0
        dd == BigDivMod(whole.q, 86400)
        secs == dd.r + (IF us = 1000000 THEN 1 ELSE 0)
    IN  TimedeltaStr(BigToInt(dd.q) + (IF secs = 86400 THEN 1 ELSE 0),
                     secs % 86400,
                     us % 1000000)

\* Faulty variant: characters_per_second is rounded up instead of truncated.
CharsPerSecondCeil(total_chars, duration) ==
    (total_chars * duration[2] + duration[1] - 1) \div duration[1]

\* characters_per_second = int(counter / duration), duration > 0.
CharsPerSecond(total_chars, duration) == Trunc(total_chars * duration[2], duration[1])

\* Lines 206-221 of embed_dataset: the statistics record, or the exception the
\* arithmetic raises.
Aggregate(total_chars, duration, scale, dataset_chars) ==
    LET characters_per_second == CharsPerSecond(total_chars, duration) IN
    IF scale[1] = 0
    THEN [ok |-> FALSE, error |-> "ZeroDivisionError", line |-> 208]
    ELSE IF characters_per_second = 0
    THEN [ok |-> FALSE, error |-> "ZeroDivisionError", line |-> 211]
    ELSE LET extrapolated_duration == TruncQuot(duration, scale) IN
         [ok |-> TRUE,
          stats |-> [downscale |-> scale,
                     n_gpu |-> N_GPU,
                     duration |-> duration,
                     characters_per_second |-> characters_per_second,
                     extrapolated_duration |-> extrapolated_duration,
                     extrapolated_duration_fmt |-> TimedeltaOfInt(extrapolated_duration),
                     extrapolated_duration_tps_fmt |->
                         TimedeltaOfQuot(dataset_chars, characters_per_second)]]

(***************************************************************************)
(* Harness for the aggregation.                                            *)
(***************************************************************************)
AggCounters == {0, 3, 7, 50000, 123456}
Durations == {<<1, 2>>, <<1, 1>>, <<3, 1>>, <<10, 1>>}
Scales == {<<0, 1>>, <<1, 1000>>, <<3, 10>>, <<1, 2>>, <<1, 1>>, <<3, 2>>, <<-1, 2>>}
CorpusSizes == {<<50, 0, 0>>, DATASET_CHARS}

AggInit ==
    /\ RunIdle
    /\ fnpc = "called"
    /\ args \in {[counter |-> c, duration |-> d, down_scale |-> s, dataset_chars |-> n] :
                    c \in AggCounters, d \in Durations, s \in Scales, n \in CorpusSizes}
    /\ ret = <<>>

AggCall ==
    /\ fnpc = "called"
    /\ fnpc' = "returned"
    /\ ret' = Aggregate(args.counter, args.duration, args.down_scale, args.dataset_chars)
    /\ UNCHANGED <<args, runvars>>

AggNext == AggCall

AggSpec == AggInit /\ [][AggNext]_vars

\* 0 < down_scale <= 1
ValidScale(ds) == ds[1] > 0 /\ ds[1] <= ds[2]

\* "H:MM:SS" written out for h hours, m minutes and s seconds.
HoursMinutesSeconds(h, m, sec) ==
    ToString(h) \o ":" \o (IF m < 10 THEN "0" ELSE "") \o ToString(m)
                \o ":" \o (IF sec < 10 THEN "0" ELSE "") \o ToString(sec)

\* The example of the aggregation: 50000 characters in 10 s at down_scale 1/1000
\* with a corpus of 50000000 characters.
AggExample ==
    [counter |-> 50000, duration |-> <<10, 1>>, down_scale |-> <<1, 1000>>,
     dataset_chars |-> <<50, 0, 0>>]

Abs(n) == IF n < 0 THEN -n ELSE n

CHUNK_SIZE == 2                 \* scaled: embed_dataset passes chunk_size=400
BATCH_SIZE == 2                 \* scaled: the source sets 128
allow_concurrent_inputs == 2    \* scaled: the source sets 100
MaxSample == 2                  \* rows of the largest sample a run selects

\* Containers started over one run: one more than may run at once.
MaxContainers == N_GPU + 1

ExitCodes == {0, 1}

\* main's "for scale in [0.0001]"
MAIN_SCALE == <<1, 10000>>

RunScales == {<<0, 1>>, MAIN_SCALE, <<1, 2>>, <<1, 1>>, <<3, 2>>, <<-1, 2>>}

Datasets ==
    { [ttl |-> 0, pat |-> <<>>],
      [ttl |-> 1, pat |-> <<Text(3)>>],
      [ttl |-> 2, pat |-> <<Text(10), Text(9)>>],
      [ttl |-> 20000, pat |-> <<Text(4), <<>> >>] }

\* dataset["train"][i - 1]["text"]
Row(d, i) == d.pat[((i - 1) % Len(d.pat)) + 1]

\* sample_size = int(ttl_size * down_scale)
SampleSize(d, scale) == Trunc(d.ttl * scale[1], scale[2])

\* The response of the embedding server: one vector per input text, in order.
ServerEmbed(texts) == [j \in 1..Len(texts) |-> <<"vec", texts[j]>>]

\* n_chars = sum(map(len, texts))
NChars(texts) == SumLen(texts)

\* Containers are interchangeable; the pool is the bag of their states.
NoWorker ==
    [st |-> "none", keep_running |-> FALSE, process |-> "none", retcode |-> <<>>,
     gate |-> "none", raised |-> <<>>, client |-> FALSE, inflight |-> {},
     \* history: a connection attempt succeeded; failed attempts begun after the
     \* process exited; an embed request was sent
     connected |-> FALSE, late |-> 0, sent |-> FALSE]

RunInit ==
    /\ fnpc = "none" /\ args = <<>> /\ ret = <<>>
    /\ entry \in {"main", "embed_dataset"}
    /\ dataset \in Datasets
    /\ down_scale \in (IF entry = "main" THEN {MAIN_SCALE} ELSE RunScales)
    /\ \/ SampleSize(dataset, down_scale) <= MaxSample
       \/ SampleSize(dataset, down_scale) > dataset.ttl
    /\ mainpc = (IF entry = "main" THEN "start" ELSE "none")
    /\ pc = (IF entry = "main" THEN "idle" ELSE "load")
    /\ benchmarks = <<>>
    /\ error = ""
    /\ materialized_batchs = <<>>
    /\ nextInput = 1
    /\ outputs = {}
    /\ results = <<>>
    /\ counter = 0
    /\ stats = <<>>
    /\ workers = EmptyBag

(***************************************************************************)
(* main                                                                    *)
(***************************************************************************)
\* with open("benchmarks.json", "a") as f: embed_dataset.remote(down_scale=scale)
MainCall ==
    /\ mainpc = "start"
    /\ mainpc' = "calling"
    /\ pc' = "load"
    /\ UNCHANGED <<fnvars, entry, benchmarks, dataset, down_scale, error,
                   materialized_batchs, nextInput, outputs, results, counter, stats,
                   workers>>

\* Faulty variant: the write sits in a finally clause and runs after a failed call too.
MainWriteFinally ==
    /\ mainpc = "calling"
    /\ pc \in {"returned", "raised"}
    /\ benchmarks' = Append(benchmarks, stats)
    /\ mainpc' = "done"
    /\ UNCHANGED <<fnvars, entry, dataset, down_scale, pc, error,
                   materialized_batchs, nextInput, outputs, results, counter, stats,
                   workers>>

\* benchmark = (the returned record); f.write(json.dumps(benchmark, indent=2) + "\n")
MainWrite ==
    /\ mainpc = "calling"
    /\ pc = "returned"
    /\ benchmarks' = Append(benchmarks, stats)
    /\ mainpc' = "done"
    /\ UNCHANGED <<fnvars, entry, dataset, down_scale, pc, error,
                   materialized_batchs, nextInput, outputs, results, counter, stats,
                   workers>>

\* The exception of embed_dataset.remote leaves the with block; nothing is written.
MainRaise ==
    /\ mainpc = "calling"
    /\ pc = "raised"
    /\ mainpc' = "raised"
    /\ UNCHANGED <<fnvars, entry, benchmarks, dataset, down_scale, pc, error,
                   materialized_batchs, nextInput, outputs, results, counter, stats,
                   workers>>

(***************************************************************************)
(* embed_dataset up to the dispatch (lines 166-197)                        *)
(***************************************************************************)
EmbedLoad ==
    /\ pc = "load"
    /\ LET sample_size == SampleSize(dataset, down_scale) IN
       IF sample_size > dataset.ttl
       THEN \* select(range(sample_size)) indexes past the last row
            /\ pc' = "raised"
            /\ error' = "IndexError"
            /\ UNCHANGED materialized_batchs
       ELSE LET subset == [i \in 1..sample_size |-> [text |-> Row(dataset, i)]]
                text_chunks == generate_chunks_from_dataset(subset, CHUNK_SIZE)
            IN  /\ materialized_batchs' = generate_batches(text_chunks, BATCH_SIZE)
                /\ pc' = "dispatch"
                /\ UNCHANGED error
    /\ UNCHANGED <<fnvars, entry, mainpc, benchmarks, dataset, down_scale,
                   nextInput, outputs, results, counter, stats, workers>>

(***************************************************************************)
(* The containers: __enter__, spawn_server, embed, __exit__                *)
(***************************************************************************)
\* The call is in progress.
Running == pc = "dispatch"

WorkerSet == BagToSet(workers)

\* The pool with one container in state w moved to state w2.
Put(w, w2) == (workers (-) SetToBag({w})) (+) SetToBag({w2})

RECURSIVE Copies(_)
\* Number of containers whose state is in S.
Copies(S) ==
    IF S = {} THEN 0
    ELSE LET w == CHOOSE x \in S : TRUE IN CopiesIn(w, workers) + Copies(S \ {w})

Live == {w \in WorkerSet : w.st \in {"entering", "ready"}}

\* __exit__: self.keep_running = False; self.process.terminate()
Exited(w) ==
    [w EXCEPT !.st = "stopped", !.keep_running = FALSE, !.process = "terminated",
              !.inflight = {}]

\* A container killed inside __enter__: no __exit__ runs, nothing of it remains.
Killed == [NoWorker EXCEPT !.st = "killed", !.process = "terminated"]

RECURSIVE TornDownOf(_)
TornDownOf(S) ==
    IF S = {} THEN EmptyBag
    ELSE LET w == CHOOSE x \in S : TRUE
             after == IF w.st = "ready" THEN Exited(w)
                      ELSE IF w.st = "entering" THEN Killed
                      ELSE w
         IN  (after :> CopiesIn(w, workers)) (+) TornDownOf(S \ {w})

\* When the call ends its containers are stopped: one that has entered runs
\* __exit__ and abandons its requests, one still in __enter__ is killed.
TornDown == TornDownOf(WorkerSet)

\* concurrency_limit=N_GPU
CanStart == Copies(Live) < N_GPU

\* Faulty variant: a container takes one input more than allow_concurrent_inputs.
HasCapacityOneMore(w) == Cardinality(w.inflight) <= allow_concurrent_inputs

\* allow_concurrent_inputs=100
HasCapacity(w) == Cardinality(w.inflight) < allow_concurrent_inputs

UnchangedRun ==
    UNCHANGED <<fnvars, entry, mainpc, benchmarks, dataset, down_scale, pc, error,
                materialized_batchs, nextInput, outputs, results, counter, stats>>

\* A container starts while an input is pending; __enter__ runs up to Popen in
\* spawn_server.
StartContainer ==
    /\ Running
    /\ nextInput <= Len(materialized_batchs)
    /\ BagCardinality(workers) < MaxContainers
    /\ CanStart
    /\ workers' = workers (+) SetToBag({[NoWorker EXCEPT
                      !.st = "entering", !.keep_running = TRUE,
                      !.process = "booting", !.gate = "connect"]})
    /\ UnchangedRun

\* text-embeddings-router binds port 8000.
ProcListen(w) ==
    /\ Running
    /\ w.process = "booting"
    /\ workers' = Put(w, [w EXCEPT !.process = "listening"])
    /\ UnchangedRun

\* text-embeddings-router exits while spawn_server polls (a later exit shows
\* only as failing requests).
ProcExit(w, code) ==
    /\ Running
    /\ w.process \in {"booting", "listening"}
    /\ w.gate \in {"connect", "except"}
    /\ workers' = Put(w, [w EXCEPT !.process = "exited", !.retcode = <<code>>])
    /\ UnchangedRun

\* Faulty variant: "return process" follows the try statement, so a failed attempt returns too.
GateConnectAnyway(w) ==
    /\ Running
    /\ w.gate = "connect"
    /\ workers' = Put(w, [w EXCEPT !.gate = "returned",
                                   !.connected = (w.process = "listening")])
    /\ UnchangedRun

\* socket.create_connection(("127.0.0.1", 8000), timeout=1): succeeds when the
\* server listens, else times out or is refused.
GateConnect(w) ==
    /\ Running
    /\ w.gate = "connect"
    /\ workers' = Put(w,
          IF w.process = "listening"
          THEN [w EXCEPT !.gate = "returned", !.connected = TRUE]
          ELSE [w EXCEPT !.gate = "except",
                         !.late = @ + (IF w.process = "exited" THEN 1 ELSE 0)])
    /\ UnchangedRun

\* Faulty variant: "if retcode:" takes exit code 0 for a running process.
GatePollTruthy(w) ==
    /\ Running
    /\ w.gate = "except"
    /\ workers' = Put(w,
          IF w.retcode # <<>> /\ w.retcode # <<0>>
          THEN [w EXCEPT !.gate = "raised", !.raised = w.retcode, !.st = "crashed"]
          ELSE [w EXCEPT !.gate = "connect"])
    /\ UnchangedRun

\* retcode = process.poll(); if retcode is not None: raise RuntimeError(...)
GatePoll(w) ==
    /\ Running
    /\ w.gate = "except"
    /\ workers' = Put(w,
          IF w.retcode # <<>>
          THEN [w EXCEPT !.gate = "raised", !.raised = w.retcode, !.st = "crashed"]
          ELSE [w EXCEPT !.gate = "connect"])
    /\ UnchangedRun

\* self.process = spawn_server(); self.client = AsyncClient(...)
EnterDone(w) ==
    /\ Running
    /\ w.st = "entering"
    /\ w.gate = "returned"
    /\ workers' = Put(w, [w EXCEPT !.st = "ready", !.client = TRUE])
    /\ UnchangedRun

\* map hands the next batch to a container that has entered; embed posts it.
Assign(w) ==
    /\ Running
    /\ nextInput <= Len(materialized_batchs)
    /\ w.st = "ready"
    /\ HasCapacity(w)
    /\ workers' = Put(w, [w EXCEPT !.inflight = @ \cup {nextInput}, !.sent = TRUE])
    /\ nextInput' = nextInput + 1
    /\ UNCHANGED <<fnvars, entry, mainpc, benchmarks, dataset, down_scale, pc, error,
                   materialized_batchs, outputs, results, counter, stats>>

\* embed returns (embeddings, n_chars) for the batch it was called with.
Respond(w, i) ==
    /\ Running
    /\ i \in w.inflight
    /\ workers' = Put(w, [w EXCEPT !.inflight = @ \ {i}])
    /\ outputs' = outputs \cup
                    {[src |-> i, ok |-> TRUE,
                      embeddings |-> ServerEmbed(materialized_batchs[i]),
                      n_chars |-> NChars(materialized_batchs[i])]}
    /\ UNCHANGED <<fnvars, entry, mainpc, benchmarks, dataset, down_scale, pc, error,
                   materialized_batchs, nextInput, results, counter, stats>>

\* client.post or res.json raises: the request fails.
RequestFail(w, i) ==
    /\ Running
    /\ i \in w.inflight
    /\ workers' = Put(w, [w EXCEPT !.inflight = @ \ {i}])
    /\ outputs' = outputs \cup {[src |-> i, ok |-> FALSE]}
    /\ UNCHANGED <<fnvars, entry, mainpc, benchmarks, dataset, down_scale, pc, error,
                   materialized_batchs, nextInput, results, counter, stats>>

\* An idle container is scaled down during the call: __exit__.
StopContainer(w) ==
    /\ Running
    /\ w.st = "ready"
    /\ w.inflight = {}
    /\ workers' = Put(w, Exited(w))
    /\ UnchangedRun

(***************************************************************************)
(* embed_dataset: the dispatch loop and the aggregation (lines 197-221)    *)
(***************************************************************************)
\* Faulty variant: order_outputs=False, map yields outputs as they complete.
YieldableAsCompleted == {o \in outputs : TRUE}

\* model.embed.map(materialized_batchs, order_outputs=True): the next output
\* is the one of the next index.
Yieldable == {o \in outputs : o.src = Len(results) + 1}

\* The failed requests: map raises the exception of one when it reaches it, at
\* its index at the latest.
Raisable == {o \in outputs : ~o.ok}

\* One round of "for text, (embedding, n_chars) in zip(...)": counter += n_chars,
\* or the exception of a failed request leaves the loop.
LoopStep ==
    /\ pc = "dispatch"
    /\ \E o \in Yieldable \cup Raisable :
         /\ outputs' = outputs \ {o}
         /\ IF o.ok
            THEN /\ results' = Append(results,
                                  [text |-> materialized_batchs[Len(results) + 1],
                                   embedding |-> o.embeddings,
                                   n_chars |-> o.n_chars,
                                   src |-> o.src])
                 /\ counter' = counter + o.n_chars
                 /\ UNCHANGED <<pc, error, workers>>
            ELSE /\ pc' = "raised"
                 /\ error' = "BatchDispatchError"
                 /\ workers' = TornDown
                 /\ UNCHANGED <<results, counter>>
    /\ UNCHANGED <<fnvars, entry, mainpc, benchmarks, dataset, down_scale,
                   materialized_batchs, nextInput, stats>>

\* A container whose __enter__ raised fails the call.
StartupAbort ==
    /\ pc = "dispatch"
    /\ \E w \in WorkerSet : w.st = "crashed"
    /\ pc' = "raised"
    /\ error' = "RuntimeError"
    /\ workers' = TornDown
    /\ UNCHANGED <<fnvars, entry, mainpc, benchmarks, dataset, down_scale,
                   materialized_batchs, nextInput, outputs, results, counter, stats>>

\* The loop is exhausted: duration = end - start, the statistics, the return.
EmbedAggregate ==
    /\ pc = "dispatch"
    /\ Len(results) = Len(materialized_batchs)
    /\ \E duration \in Durations :
         LET a == Aggregate(counter, duration, down_scale, DATASET_CHARS) IN
         IF a.ok
         THEN /\ stats' = a.stats
              /\ pc' = "returned"
              /\ UNCHANGED error
         ELSE /\ pc' = "raised"
              /\ error' = a.error
              /\ UNCHANGED stats
    /\ workers' = TornDown
    /\ UNCHANGED <<fnvars, entry, mainpc, benchmarks, dataset, down_scale,
                   materialized_batchs, nextInput, outputs, results, counter>>

Next ==
    \/ MainCall
    \/ MainWrite
    \/ MainRaise
    \/ EmbedLoad
    \/ StartContainer
    \/ \E w \in WorkerSet : ProcListen(w)
    \/ \E w \in WorkerSet, code \in ExitCodes : ProcExit(w, code)
    \/ \E w \in WorkerSet : GateConnect(w)
    \/ \E w \in WorkerSet : GatePoll(w)
    \/ \E w \in WorkerSet : EnterDone(w)
    \/ \E w \in WorkerSet : Assign(w)
    \/ \E w \in WorkerSet, i \in 1..Len(materialized_batchs) : Respond(w, i)
    \/ \E w \in WorkerSet, i \in 1..Len(materialized_batchs) : RequestFail(w, i)
    \/ \E w \in WorkerSet : StopContainer(w)
    \/ LoopStep
    \/ StartupAbort
    \/ EmbedAggregate

Spec == RunInit /\ [][Next]_vars

RECURSIVE InFlightOf(_)
\* Number of embed requests in flight in the containers whose state is in S.
InFlightOf(S) ==
    IF S = {} THEN 0
    ELSE LET w == CHOOSE x \in S : TRUE IN
         Cardinality(w.inflight) * CopiesIn(w, workers) + InFlightOf(S \ {w})

\* C1: the loop has consumed a prefix of the batches' results in batch order: the
\* k-th pair consumed comes from the request of the k-th batch and holds that
\* batch, its embeddings (one vector per chunk, in order) and its character
\* count; when embed_dataset returns, there are as many pairs as batches.
C1_OrderPreserved ==
    /\ Len(results) <= Len(materialized_batchs)
    /\ \A k \in 1..Len(results) :
         LET batch == materialized_batchs[k] IN
         /\ results[k].src = k
         /\ results[k].text = batch
         /\ Len(results[k].embedding) = Len(batch)
         /\ \A j \in 1..Len(batch) : results[k].embedding[j] = <<"vec", batch[j]>>
         /\ results[k].n_chars = Len(Flatten(batch))
    /\ (pc = "returned" => Len(results) = Len(materialized_batchs))

\* Witness: a later batch has completed and waits while the loop, which has
\* consumed a pair already, is due an earlier one.
C1_Witness ==
    /\ Len(results) >= 1
    /\ \E o \in outputs : o.ok /\ o.src > Len(results) + 1

C3_FatalExit ==
    \A w \in WorkerSet :
        /\ w.retcode # <<>> =>
              /\ ~w.connected
              /\ w.gate \in {"connect", "except", "raised"}
              /\ w.late <= 1
              /\ (w.gate = "connect" => w.late = 0)
              /\ (w.gate = "raised" => w.raised = w.retcode)
        /\ w.gate = "raised" => (w.retcode # <<>> /\ w.raised = w.retcode)

\* Witness: the process exited with code 1, the one connection attempt after
\* the exit failed, and spawn_server raised with code 1.
C3_Witness ==
    \E w \in WorkerSet :
        /\ w.retcode = <<1>>
        /\ w.late = 1
        /\ w.gate = "raised"
        /\ w.raised = <<1>>

\* C4: a down_scale outside (0, 1] makes embed_dataset fail before any dispatch
\* work: the run never returns a record, no container starts and no batch is
\* handed to a worker (whatever the rejecting error is called).
C4_InvalidScaleRejected ==
    ~ValidScale(down_scale) =>
        /\ nextInput = 1
        /\ workers = EmptyBag
        /\ pc # "returned"

\* C8: an aborted run returns no statistics record, and main appends nothing to
\* benchmarks.json for it.
C8_NoPartialStatistics ==
    /\ pc = "raised" => (stats = <<>> /\ benchmarks = <<>>)
    /\ mainpc = "raised" => (stats = <<>> /\ benchmarks = <<>>)
    /\ stats # <<>> => pc = "returned"
    /\ benchmarks # <<>> => (pc = "returned" /\ benchmarks = <<stats>>)

\* Witness: a run started by main was aborted by a failed batch request, and
\* main has ended with the log untouched.
C8_Witness ==
    /\ entry = "main"
    /\ mainpc = "raised"
    /\ error = "BatchDispatchError"
    /\ benchmarks = <<>>

\* C9: spawn_server has returned only after a connection attempt succeeded, the
\* client handle exists only after spawn_server returned, and a container has
\* been sent embed requests only with its client handle, after that connection.
C9_ReadyBeforeAdmission ==
    \A w \in WorkerSet :
        /\ w.gate = "returned" => w.connected
        /\ w.client => (w.gate = "returned" /\ w.connected)
        /\ w.st = "ready" => w.client
        /\ (w.sent \/ w.inflight # {}) => (w.client /\ w.connected)

\* Witness: a container whose server was connected to has a request in flight
\* while another container is still polling.
C9_Witness ==
    /\ \E w \in WorkerSet : w.connected /\ w.client /\ w.inflight # {}
    /\ \E w \in WorkerSet : w.gate = "except" /\ ~w.connected

\* C10: a run with 0 < down_scale <= 1 ends without a statistics record only
\* because a worker failed to start or a batch request failed; in particular a
\* run with an empty sample or with characters_per_second = 0 returns a record.
C10_ValidRunReturns ==
    (ValidScale(down_scale) /\ pc = "raised") =>
        error \in {"RuntimeError", "BatchDispatchError"}

====
